---- MODULE Spec2Model ----
(***************************************************************************)
(* Model of the Kalman-lock classifier kal() of                            *)
(* kalman_threshold/resids_and_kalstr.py and of the search loops of        *)
(* kalman_threshold/search_scripts/from_derived.py and from_res.py.        *)
(*                                                                         *)
(* Time is an integer tick axis that keeps the order of the three dates    *)
(* the code compares against: sample times, dp_date (2013:297:11:25:52)    *)
(* and the start of day 2015:251.  Angles are whole arcseconds.  Arrays    *)
(* are sequences, so python index k is TLA+ index k + 1.                   *)
(***************************************************************************)
EXTENDS Integers, Sequences, FiniteSets, TLC

\* the state of a kal() call
VARIABLES dwell, telem, cat, limit, nowflags, pc, kalm, ret, err

\* the state of a run of a search script
VARIABLES script, spc, di, obsid, pcad_data, lookup, dcat, res_telem,
          kalstr, diff, low_obsids, low_t, aborted

kalvars == <<dwell, telem, cat, limit, nowflags, pc, kalm, ret, err>>

searchvars == <<script, spc, di, obsid, pcad_data, lookup, dcat, res_telem,
                kalstr, diff, low_obsids, low_t, aborted>>

vars == <<kalvars, searchvars>>

(***************************************************************************)
(* numpy / python helpers                                                  *)
(***************************************************************************)
Abs(x) == IF x < 0 THEN -x ELSE x

\* x % n with python's sign convention (n > 0)
PyMod(x, n) == ((x % n) + n) % n

\* seq[k] for a python index k: a negative k counts from the end
PyIndex(seq, k) == IF k < 0 THEN seq[Len(seq) + k + 1] ELSE seq[k + 1]

\* seq[1:-1]
Slice1m1(seq) == IF Len(seq) <= 2 THEN << >> ELSE SubSeq(seq, 2, Len(seq) - 1)

\* np.searchsorted(a, v) (side='left') for a sorted a: the number of
\* elements of a strictly below v
SearchSorted(a, v) == Cardinality({j \in 1..Len(a) : a[j] < v})

\* np.roll(col, k, axis=0)[i] for a 1-based i: element (i - k) mod n of col
\* in python's 0-based indices
RollIdx(i, k, n) == PyMod((i - 1) - k, n) + 1

(***************************************************************************)
(* Program constants                                                       *)
(***************************************************************************)
\* for slot in range(0, 8)
NSlots == 8
Slots == 0..(NSlots - 1)

\* DateTime('2013:297:11:25:52.000').secs on the tick axis
dp_date == 10

\* 2015:251:00:00:00.000 on the tick axis
date_2015_251 == 20

\* the roll of the tracking column: "rolled-by-4 for ~last 4.1 sample"
RollBy == 4

\* dwell.start > '2015:251' compares date strings: every 'YYYY:DDD:HH:MM:SS.sss'
\* string of day 2015:251 or later has '2015:251' as a proper prefix or is
\* greater at an earlier character, so the test holds from the first instant
\* of that day on
StartAfter2015_251(d) == d.start >= date_2015_251

(***************************************************************************)
(* kal(): the boolean columns, one value per sample i (1-based) and slot s *)
(***************************************************************************)
\* tm is the telemetry the columns are built from
\* fids with the value compared without its trailing blank
fids_MutNoPad(tm, i, s) == tm.AOACFID[s][i] = "FID"

fids(tm, i, s) == tm.AOACFID[s][i] = "FID "
trak(tm, i, s) == tm.AOACFCT[s][i] = "TRAK"
ir(tm, i, s) == tm.AOACIIR[s][i] = "OK "
sp(tm, i, s) == tm.AOACISP[s][i] = "OK "

\* dp with the date comparison reversed
dp_MutBefore(tm, i, s) == (tm.AOACIDP[s][i] = "OK ") \/ (tm.times[i] < dp_date)

dp(tm, i, s) == (tm.AOACIDP[s][i] = "OK ") \/ (tm.times[i] > dp_date)

\* mss[np.searchsorted(mss_times[1:-1], telem['AOACIMS0'].times) - 1]
mss_at_times(tm, i) ==
    LET mss == [j \in 1..Len(tm.AOACIMSS.vals) |-> tm.AOACIMSS.vals[j] = "ENAB"]
        mss_times == tm.AOACIMSS.times
    IN PyIndex(mss, SearchSorted(Slice1m1(mss_times), tm.times[i]) - 1)

ms(tm, i, s) ==
    IF StartAfter2015_251(dwell)
    THEN (tm.AOACIMS[s][i] = "OK ") \/ ~mss_at_times(tm, i)
    ELSE tm.AOACIMS[s][i] = "OK "

\* last_trak = np.roll(trak, 4, axis=0); last_trak[0] = True
last_trak(tm, i, s) ==
    IF i = 1 THEN TRUE
    ELSE trak(tm, RollIdx(i, RollBy, Len(tm.times)), s)

\* gcat = cat[(cat['type'] == 'BOT') | (cat['type'] == 'GUI')]: the rows of
\* cat that gcat keeps, in the order of cat
InGcat(e) == e.type = "BOT" \/ e.type = "GUI"

\* the rows of gcat (as indices of cat) that write column s of the offsets
GcatRows(s) == {k \in 1..Len(cat) : InGcat(cat[k]) /\ cat[k].slot = s}

\* yag_offs starts as zeros; the loop over gcat overwrites column entry.slot
\* with yag - AOACYAN, a later row for the same slot overwriting an earlier
yag_offs(tm, i, s) ==
    LET rows == GcatRows(s)
    IN IF rows = {} THEN 0
       ELSE LET k == CHOOSE r \in rows : \A q \in rows : q <= r
            IN cat[k].yag - tm.AOACYAN[s][i]

zag_offs(tm, i, s) ==
    LET rows == GcatRows(s)
    IN IF rows = {} THEN 0
       ELSE LET k == CHOOSE r \in rows : \A q \in rows : q <= r
            IN cat[k].zag - tm.AOACZAN[s][i]

\* the kal expression with nowflags ignored
KalAt_MutFlags(tm, i, s) ==
    ~fids(tm, i, s) /\ trak(tm, i, s) /\ last_trak(tm, i, s)
    /\ ir(tm, i, s) /\ sp(tm, i, s) /\ dp(tm, i, s) /\ ms(tm, i, s)
    /\ Abs(yag_offs(tm, i, s)) < limit /\ Abs(zag_offs(tm, i, s)) < limit

\* the element of the kal matrix at sample i, slot s
KalAt(tm, i, s) ==
    IF nowflags
    THEN ~fids(tm, i, s) /\ trak(tm, i, s) /\ last_trak(tm, i, s)
         /\ ir(tm, i, s) /\ sp(tm, i, s)
         /\ Abs(yag_offs(tm, i, s)) < limit /\ Abs(zag_offs(tm, i, s)) < limit
    ELSE ~fids(tm, i, s) /\ trak(tm, i, s) /\ last_trak(tm, i, s)
         /\ ir(tm, i, s) /\ sp(tm, i, s) /\ dp(tm, i, s) /\ ms(tm, i, s)
         /\ Abs(yag_offs(tm, i, s)) < limit /\ Abs(zag_offs(tm, i, s)) < limit

KalMatrix(tm) == [i \in 1..Len(tm.times) |-> [s \in Slots |-> KalAt(tm, i, s)]]

(***************************************************************************)
(* The inputs of a kal() call.  A dwell of NSamples samples with the       *)
(* eight slots tracking with every flag OK and every guide star measured   *)
(* where it is expected; one slot, fs, departs from that in its fid light, *)
(* its tracking column, its quality flags and its measured centroid.       *)
(***************************************************************************)
NSamples == 5

\* the expected position (arcsec) of the star of a catalog row: what
\* agasc.get_star, radec2eci and the attitude quaternions give at a constant
\* attitude
ExpYag(s) == 100 * s
ExpZag(s) == -100 * s

Row(s, t) == [slot |-> s, type |-> t, yag |-> ExpYag(s), zag |-> ExpZag(s)]

\* a starcheck catalog with every entry type; slot 7 has no entry and
\* slot 5 has its acquisition row next to its guide row
Catalog ==
    << Row(0, "FID"), Row(1, "FID"), Row(3, "BOT"), Row(4, "BOT"),
       Row(5, "GUI"), Row(2, "ACQ"), Row(5, "ACQ"), Row(6, "MON") >>

\* the tracking columns of slot fs: tracking throughout, or lost at one sample
DropSets == {{}} \cup {{i} : i \in 1..NSamples}

\* the quality flags that fail on slot fs
BadSets == {{}, {"ir"}, {"sp"}, {"dp"}, {"ms"}, {"dp", "ms"}, {"ir", "sp", "dp", "ms"}}

\* measured minus expected centroid of slot fs, (y, z)
CentroidShifts == {<<0, 0>>, <<20, 0>>, <<0, -20>>}

Limits == {20, 25}

\* dwell starts: around dp_date, the tick before 2015:251, and after it
DwellStarts == {dp_date - 2, date_2015_251 - 1, date_2015_251 + 1}

Flag(bad) == IF bad THEN "ERR" ELSE "OK "

\* AOACIMSS is sampled every other tick of the dwell
MssTimes(start) == [j \in 1..((NSamples + 1) \div 2) |-> start + 2 * (j - 1)]
MssVals == [1..((NSamples + 1) \div 2) -> {"ENAB", "DISA"}]

Telem(start, fs, fidv, drop, bad, shift, mssv) ==
    [ times    |-> [i \in 1..NSamples |-> start + (i - 1)],
      AOACFID  |-> [s \in Slots |-> [i \in 1..NSamples |->
                      IF s = fs THEN fidv
                      ELSE IF "FID" \in {Catalog[k].type : k \in {r \in 1..Len(Catalog) : Catalog[r].slot = s}}
                           THEN "FID " ELSE "STAR"]],
      AOACFCT  |-> [s \in Slots |-> [i \in 1..NSamples |->
                      IF s = fs /\ i \in drop THEN "RACQ" ELSE "TRAK"]],
      AOACIIR  |-> [s \in Slots |-> [i \in 1..NSamples |-> Flag(s = fs /\ "ir" \in bad)]],
      AOACISP  |-> [s \in Slots |-> [i \in 1..NSamples |-> Flag(s = fs /\ "sp" \in bad)]],
      AOACIDP  |-> [s \in Slots |-> [i \in 1..NSamples |-> Flag(s = fs /\ "dp" \in bad)]],
      AOACIMS  |-> [s \in Slots |-> [i \in 1..NSamples |-> Flag(s = fs /\ "ms" \in bad)]],
      AOACYAN  |-> [s \in Slots |-> [i \in 1..NSamples |->
                      ExpYag(s) + (IF s = fs THEN shift[1] ELSE 0)]],
      AOACZAN  |-> [s \in Slots |-> [i \in 1..NSamples |->
                      ExpZag(s) + (IF s = fs THEN shift[2] ELSE 0)]],
      AOACIMSS |-> [vals |-> mssv, times |-> IF mssv = << >> THEN << >> ELSE MssTimes(start)] ]

KalInit ==
    /\ \E start \in DwellStarts, fs \in Slots, fidv \in {"FID ", "STAR"},
          drop \in DropSets, bad \in BadSets, shift \in CentroidShifts :
          \E mssv \in (IF start >= date_2015_251 THEN MssVals ELSE {<< >>}) :
             /\ dwell = [start |-> start]
             /\ telem = Telem(start, fs, fidv, drop, bad, shift, mssv)
    /\ cat = Catalog
    /\ limit \in Limits
    /\ nowflags \in BOOLEAN
    /\ pc = "call"
    /\ kalm = << >>
    /\ ret = << >>
    /\ err = ""

(***************************************************************************)
(* kal(): the computation of the matrix, then the exit of the function     *)
(***************************************************************************)
KalCompute ==
    /\ pc = "call"
    /\ kalm' = KalMatrix(telem)
    /\ pc' = "computed"
    /\ UNCHANGED <<dwell, telem, cat, limit, nowflags, ret, err>>
    /\ UNCHANGED searchvars

\* kal without the raise statement
KalRaises_MutReturn == FALSE

\* the statement that follows the computation of the matrix: raise ValueError
KalRaises == TRUE

KalExit ==
    /\ pc = "computed"
    /\ IF KalRaises
       THEN err' = "ValueError" /\ ret' = ret
       ELSE ret' = <<telem.times, kalm>> /\ err' = err
    /\ pc' = "done"
    /\ UNCHANGED <<dwell, telem, cat, limit, nowflags, kalm>>
    /\ UNCHANGED searchvars

(***************************************************************************)
(* The search scripts: helpers                                             *)
(***************************************************************************)
\* the k-th smallest element of a set of integers (k from 1)
Kth(S, k) == CHOOSE x \in S : Cardinality({y \in S : y < x}) = k - 1

\* np.flatnonzero(mask): the python indices of the true elements, ascending
FlatNonzero(mask) ==
    LET hits == {i \in 1..Len(mask) : mask[i]}
    IN [p \in 1..Cardinality(hits) |-> Kth(hits, p) - 1]

\* consecutive without the split
Consecutive_MutNoSplit(data) == << data >>

\* consecutive(data, stepsize=1):
\* np.split(data, np.where(np.diff(data) != stepsize)[0] + 1)
Consecutive(data) ==
    LET cuts == {j \in 1..(Len(data) - 1) : data[j + 1] - data[j] # 1}
        n == Cardinality(cuts) + 1
    IN [p \in 1..n |->
          SubSeq(data,
                 IF p = 1 THEN 1 ELSE Kth(cuts, p - 1) + 1,
                 IF p = n THEN Len(data) ELSE Kth(cuts, p))]

\* AOKALSTR values are strings; .vals.astype(int)
AsInt(v) ==
    CASE v = "0 " -> 0 [] v = "1 " -> 1 [] v = "2 " -> 2 [] v = "3 " -> 3
      [] v = "4 " -> 4 [] v = "5 " -> 5 [] v = "6 " -> 6 [] v = "7 " -> 7
      [] v = "8 " -> 8

\* the thresholds of a marginal offset, in arcsec
LimitLow == 5
LimitHigh == 20

\* (kalstr - diff) < 3
KalstrFloor == 3

\* if len(e) > 8
RunLimit == 8

\* ((kalstr - diff) < 3) & (diff != 0)
Flagged(k, d) == [i \in 1..Len(k) |-> (k[i] - d[i]) < KalstrFloor /\ d[i] # 0]

\* for e in consecutive(np.flatnonzero(...)): if len(e) > 8: the runs that
\* are reported, in order
LongRuns(k, d) ==
    SelectSeq(Consecutive(FlatNonzero(Flagged(k, d))), LAMBDA e : Len(e) > RunLimit)

\* np.unique: sorted, without duplicates
Unique(seq) ==
    LET S == {seq[i] : i \in 1..Len(seq)}
    IN [p \in 1..Cardinality(S) |-> Kth(S, p)]

(***************************************************************************)
(* from_derived.py                                                         *)
(***************************************************************************)
\* get_catalog(obsid, obstime) on the planning tables the record lk stands
\* for: the load segment searchsorted selects, the rows of loads and
\* summaries that match it, and what starcheck holds for the obsid.  The
\* segment test only prints.
get_catalog(lk) ==
    LET in_segment == (lk.datestart < lk.obstime) /\ (lk.datestop > lk.obstime)
        replanned == lk.bcf_cmd_count # 0 /\ lk.processing_tstart > lk.obstime
                     /\ lk.replan_match
    IN IF lk.n_loads = 0 THEN [raised |-> "IndexError", printed |-> ~in_segment]
       ELSE IF lk.n_summaries = 0 THEN [raised |-> "IndexError", printed |-> ~in_segment]
       ELSE IF replanned /\ lk.n_sum_match = 0
            THEN [raised |-> "NameError", printed |-> ~in_segment]
       ELSE IF Len(lk.cat) = 0 THEN [raised |-> "ValueError", printed |-> ~in_segment]
       ELSE IF lk.n_manvr = 0 THEN [raised |-> "IndexError", printed |-> ~in_segment]
       ELSE [raised |-> "", printed |-> ~in_segment,
             cat |-> lk.cat,
             mp_dir |-> IF replanned THEN "replan" ELSE "segment"]

\* except (ValueError, IndexError)
Caught(e) == e \in {"ValueError", "IndexError"}

\* gcat = cat['cat'][(type == 'BOT') | (type == 'GUI')]
DGcat(c) == SelectSeq(c, InGcat)

\* yag_offs[:, idx] = yag - AOACYAN{slot}: sample i, column idx of gcat
DYagOffs(g, pd, i, idx) == g[idx].yag - pd.AOACYAN[g[idx].slot][i]
DZagOffs(g, pd, i, idx) == g[idx].zag - pd.AOACZAN[g[idx].slot][i]

\* diff = np.sum(((|yag_offs| > 5) & (|yag_offs| < 20))
\*               | ((|zag_offs| > 5) & (|zag_offs| < 20)), axis=1)
DerivedDiff(g, pd) ==
    [i \in 1..Len(pd.AOKALSTR) |->
        Cardinality({idx \in 1..Len(g) :
            \/ (Abs(DYagOffs(g, pd, i, idx)) > LimitLow
                /\ Abs(DYagOffs(g, pd, i, idx)) < LimitHigh)
            \/ (Abs(DZagOffs(g, pd, i, idx)) > LimitLow
                /\ Abs(DZagOffs(g, pd, i, idx)) < LimitHigh)})]

(***************************************************************************)
(* from_res.py                                                             *)
(***************************************************************************)
\* chunk = 30; for day_back in range(-3282, 0, chunk)
chunk == 30
RangeStart == -3282

\* np.abs(np.degrees(telem['AORESY{}'].vals)) * 3600 < 20, and < 5; the model
\* holds the residuals in arcsec.  All four columns read AORESY.
yres_ok(t, i, s) == Abs(t.AORESY[s][i]) < LimitHigh
zres_ok(t, i, s) == Abs(t.AORESY[s][i]) < LimitHigh
yres_great(t, i, s) == Abs(t.AORESY[s][i]) < LimitLow
zres_great(t, i, s) == Abs(t.AORESY[s][i]) < LimitLow

\* diff = np.sum((yres_ok != yres_great) | (zres_ok != zres_great), axis=1)
ResDiff(t) ==
    [i \in 1..Len(t.AOKALSTR) |->
        Cardinality({s \in Slots :
            \/ yres_ok(t, i, s) # yres_great(t, i, s)
            \/ zres_ok(t, i, s) # zres_great(t, i, s)})]

(***************************************************************************)
(* The inputs of a run of a search script                                  *)
(***************************************************************************)
\* dwells (from_derived) and 30-day chunks (from_res) of a run
NDwells == 2
NChunks == 3

\* the length of the long telemetry series
NLong == 10

\* obsids do not follow the order of the dwells
ObsidOf(k) == 200 - k

\* the number of values of range(RangeStart, 0, chunk)
RangeLen == ((0 - RangeStart) + chunk - 1) \div chunk

\* day_back of the k-th of the last NChunks iterations of the range
DayBack(k) == RangeStart + chunk * (RangeLen - NChunks + k - 1)

\* the guide slots of Catalog whose centroid is off in a sample: the first
\* n of slots 3, 4, 5
Shifted(n) == {s \in Slots : 3 <= s /\ s < 3 + n}

\* a sample: the onboard count k and n slots that are off by (y, z) arcsec
Kind(k, n, y, z) == [k |-> k, n |-> n, y |-> y, z |-> z]

\* count 1 with three slots 10 arcsec off in y: a flagged sample
KindLow == Kind("1 ", 3, 10, 0)
\* count 5 with nothing off, or one slot off: not flagged
KindsGood == {Kind("5 ", 0, 0, 0), Kind("5 ", 1, 10, 0)}

OffVals == {0, 4, 5, -10, 20}

\* series of NLong samples, each KindLow or one good kind
LongSeries ==
    {[i \in 1..NLong |-> IF i \in F THEN KindLow ELSE g] :
        F \in SUBSET (1..NLong), g \in KindsGood}

\* series of one sample with offsets around the two thresholds
ShortSeries ==
    {<< Kind(k, n, y, z) >> : k \in {"1 ", "5 "}, n \in {1, 3}, y \in OffVals, z \in OffVals}

Series == LongSeries \cup ShortSeries

\* what get_pcad returns for a series
PcadOf(ser) ==
    [ AOKALSTR |-> [i \in 1..Len(ser) |-> ser[i].k],
      AOACYAN  |-> [s \in Slots |-> [i \in 1..Len(ser) |->
                      ExpYag(s) - (IF s \in Shifted(ser[i].n) THEN ser[i].y ELSE 0)]],
      AOACZAN  |-> [s \in Slots |-> [i \in 1..Len(ser) |->
                      ExpZag(s) - (IF s \in Shifted(ser[i].n) THEN ser[i].z ELSE 0)]] ]

\* what fetch.get_telem returns for a series in the chunk that starts at day
ResTelemOf(ser, day) ==
    [ AOKALSTR |-> [i \in 1..Len(ser) |-> ser[i].k],
      times    |-> [i \in 1..Len(ser) |-> day * 100 + i],
      AORESY   |-> [s \in Slots |-> [i \in 1..Len(ser) |->
                      IF s \in Shifted(ser[i].n) THEN ser[i].y ELSE 0]],
      AORESZ   |-> [s \in Slots |-> [i \in 1..Len(ser) |->
                      IF s \in Shifted(ser[i].n) THEN ser[i].z ELSE 0]] ]

NoTelem == [AOKALSTR |-> << >>]

\* a dwell inside its load segment, with a load, a summary and a catalog
LookupOK ==
    [ obstime |-> 5, datestart |-> 0, datestop |-> 10,
      n_loads |-> 1, n_summaries |-> 1,
      bcf_cmd_count |-> 0, processing_tstart |-> 0, replan_match |-> FALSE,
      n_sum_match |-> 0, cat |-> Catalog, n_manvr |-> 1 ]

LookupCases ==
    { LookupOK,
      [LookupOK EXCEPT !.datestop = 5],
      [LookupOK EXCEPT !.datestart = 7],
      [LookupOK EXCEPT !.n_loads = 0],
      [LookupOK EXCEPT !.n_summaries = 0],
      [LookupOK EXCEPT !.bcf_cmd_count = 4, !.processing_tstart = 8,
                       !.replan_match = TRUE, !.n_sum_match = 1],
      [LookupOK EXCEPT !.bcf_cmd_count = 4, !.processing_tstart = 8,
                       !.replan_match = TRUE],
      [LookupOK EXCEPT !.cat = << >>],
      [LookupOK EXCEPT !.n_manvr = 0] }

NoLookup == [obstime |-> 0]

SearchInit ==
    /\ script \in {"from_derived", "from_res"}
    /\ spc = "for"
    /\ di = 1
    /\ obsid = 0
    /\ pcad_data = NoTelem
    /\ lookup = NoLookup
    /\ dcat = << >>
    /\ res_telem = NoTelem
    /\ kalstr = << >>
    /\ diff = << >>
    /\ low_obsids = << >>
    /\ low_t = << >>
    /\ aborted = ""

(***************************************************************************)
(* from_derived.py: the loop over the dwells                               *)
(***************************************************************************)
\* for d in ds: obsid = d.get_obsid(); the names of the loop body are bound
\* anew in every iteration
DerivedFor ==
    /\ script = "from_derived" /\ spc = "for" /\ di <= NDwells
    /\ obsid' = ObsidOf(di)
    /\ pcad_data' = NoTelem /\ lookup' = NoLookup /\ dcat' = << >>
    /\ kalstr' = << >> /\ diff' = << >>
    /\ spc' = "get_pcad"
    /\ UNCHANGED <<script, di, res_telem, low_obsids, low_t, aborted>>
    /\ UNCHANGED kalvars

\* pcad_data = get_pcad(d), outside the try statement: an error of the fetch
\* ends the script
DerivedGetPcad ==
    /\ script = "from_derived" /\ spc = "get_pcad"
    /\ \/ /\ \E ser \in Series : pcad_data' = PcadOf(ser)
          /\ spc' = "get_catalog"
          /\ UNCHANGED aborted
       \/ /\ aborted' = "get_pcad"
          /\ spc' = "aborted"
          /\ UNCHANGED pcad_data
    /\ UNCHANGED <<script, di, obsid, lookup, dcat, res_telem, kalstr, diff,
                   low_obsids, low_t>>
    /\ UNCHANGED kalvars

\* try: cat = get_catalog(obsid, d.manvr.start)
\* except (ValueError, IndexError): print; continue
DerivedGetCatalog ==
    /\ script = "from_derived" /\ spc = "get_catalog"
    /\ \E lk \in LookupCases :
          /\ lookup' = lk
          /\ LET r == get_catalog(lk)
             IN IF r.raised = ""
                THEN dcat' = r.cat /\ spc' = "search" /\ UNCHANGED <<di, aborted>>
                ELSE IF Caught(r.raised)
                THEN di' = di + 1 /\ spc' = "for" /\ UNCHANGED <<dcat, aborted>>
                ELSE aborted' = r.raised /\ spc' = "aborted" /\ UNCHANGED <<dcat, di>>
    /\ UNCHANGED <<script, obsid, pcad_data, res_telem, kalstr, diff,
                   low_obsids, low_t>>
    /\ UNCHANGED kalvars

\* gcat, yag_offs, zag_offs, diff and kalstr of the dwell
DerivedSearch ==
    /\ script = "from_derived" /\ spc = "search"
    /\ diff' = DerivedDiff(DGcat(dcat), pcad_data)
    /\ kalstr' = [i \in 1..Len(pcad_data.AOKALSTR) |-> AsInt(pcad_data.AOKALSTR[i])]
    /\ spc' = "runs"
    /\ UNCHANGED <<script, di, obsid, pcad_data, lookup, dcat, res_telem,
                   low_obsids, low_t, aborted>>
    /\ UNCHANGED kalvars

\* for e in consecutive(...): if len(e) > 8: low_obsids.append(obsid)
DerivedRuns ==
    /\ script = "from_derived" /\ spc = "runs"
    /\ low_obsids' = low_obsids \o [p \in 1..Len(LongRuns(kalstr, diff)) |-> obsid]
    /\ di' = di + 1
    /\ spc' = "for"
    /\ UNCHANGED <<script, obsid, pcad_data, lookup, dcat, res_telem, kalstr, diff,
                   low_t, aborted>>
    /\ UNCHANGED kalvars

\* low_obsids = np.unique(low_obsids)
DerivedUnique ==
    /\ script = "from_derived" /\ spc = "for" /\ di > NDwells
    /\ low_obsids' = Unique(low_obsids)
    /\ spc' = "done"
    /\ UNCHANGED <<script, di, obsid, pcad_data, lookup, dcat, res_telem, kalstr,
                   diff, low_t, aborted>>
    /\ UNCHANGED kalvars

(***************************************************************************)
(* from_res.py: the loop over the chunks                                   *)
(***************************************************************************)
\* for day_back in range(-3282, 0, chunk): stop is set when
\* day_back + chunk < 0, else continue
ResFor ==
    /\ script = "from_res" /\ spc = "for" /\ di <= NChunks
    /\ res_telem' = NoTelem /\ kalstr' = << >> /\ diff' = << >>
    /\ IF DayBack(di) + chunk < 0
       THEN spc' = "fetch" /\ UNCHANGED di
       ELSE spc' = "for" /\ di' = di + 1
    /\ UNCHANGED <<script, obsid, pcad_data, lookup, dcat, low_obsids, low_t, aborted>>
    /\ UNCHANGED kalvars

\* telem = fetch.get_telem(...); the four residual columns, kalstr and diff
ResFetch ==
    /\ script = "from_res" /\ spc = "fetch"
    /\ \E ser \in Series :
          /\ res_telem' = ResTelemOf(ser, DayBack(di))
          /\ kalstr' = [i \in 1..Len(ser) |-> AsInt(ser[i].k)]
          /\ diff' = ResDiff(ResTelemOf(ser, DayBack(di)))
    /\ spc' = "runs"
    /\ UNCHANGED <<script, di, obsid, pcad_data, lookup, dcat, low_obsids, low_t,
                   aborted>>
    /\ UNCHANGED kalvars

\* for e in consecutive(...): if len(e) > 8:
\*     low_t.append(DateTime(telem['AORESY0'].times[e[0]]).date)
ResRuns ==
    /\ script = "from_res" /\ spc = "runs"
    /\ LET runs == LongRuns(kalstr, diff)
       IN low_t' = low_t \o [p \in 1..Len(runs) |-> res_telem.times[runs[p][1] + 1]]
    /\ di' = di + 1
    /\ spc' = "for"
    /\ UNCHANGED <<script, obsid, pcad_data, lookup, dcat, res_telem, kalstr, diff,
                   low_obsids, aborted>>
    /\ UNCHANGED kalvars

\* the range is exhausted
ResEnd ==
    /\ script = "from_res" /\ spc = "for" /\ di > NChunks
    /\ spc' = "done"
    /\ UNCHANGED <<script, di, obsid, pcad_data, lookup, dcat, res_telem, kalstr,
                   diff, low_obsids, low_t, aborted>>
    /\ UNCHANGED kalvars

(***************************************************************************)
(* Specifications                                                          *)
(***************************************************************************)
\* no search script runs
SearchIdle ==
    /\ script = "none" /\ spc = "idle" /\ di = 0 /\ obsid = 0
    /\ pcad_data = NoTelem /\ lookup = NoLookup /\ dcat = << >>
    /\ res_telem = NoTelem /\ kalstr = << >> /\ diff = << >>
    /\ low_obsids = << >> /\ low_t = << >> /\ aborted = ""

\* kal is not called
KalIdle ==
    /\ dwell = [start |-> 0] /\ telem = [times |-> << >>] /\ cat = << >>
    /\ limit = 20 /\ nowflags = FALSE /\ pc = "idle"
    /\ kalm = << >> /\ ret = << >> /\ err = ""

\* a call of kal
Init == KalInit /\ SearchIdle
Next == KalCompute \/ KalExit
Spec == Init /\ [][Next]_vars

\* a run of from_derived.py or of from_res.py
InitSearch == SearchInit /\ KalIdle
NextSearch ==
    \/ DerivedFor \/ DerivedGetPcad \/ DerivedGetCatalog \/ DerivedSearch
    \/ DerivedRuns \/ DerivedUnique
    \/ ResFor \/ ResFetch \/ ResRuns \/ ResEnd
SpecSearch == InitSearch /\ [][NextSearch]_vars

(***************************************************************************)
(* Properties of kal()                                                     *)
(***************************************************************************)
Computed == pc # "call"
Samples == 1..Len(telem.times)

Failing(v) == v # "OK "
TrackingThroughout(s) == \A k \in Samples : telem.AOACFCT[s][k] = "TRAK"
WithinLimit(i, s) ==
    Abs(yag_offs(telem, i, s)) < limit /\ Abs(zag_offs(telem, i, s)) < limit

\* nowflags is false and, of all the conditions of a lock, only the dp flag
\* of slot s fails at sample i
OnlyDpFails(i, s) ==
    /\ ~nowflags
    /\ telem.AOACFID[s][i] # "FID "
    /\ TrackingThroughout(s)
    /\ ~Failing(telem.AOACIIR[s][i]) /\ ~Failing(telem.AOACISP[s][i])
    /\ ~Failing(telem.AOACIMS[s][i])
    /\ Failing(telem.AOACIDP[s][i])
    /\ WithinLimit(i, s)

OtherConditions(i, s) ==
    /\ telem.AOACFID[s][i] # "FID "
    /\ ~Failing(telem.AOACIIR[s][i]) /\ ~Failing(telem.AOACISP[s][i])
    /\ (nowflags \/ (dp(telem, i, s) /\ ms(telem, i, s)))
    /\ WithinLimit(i, s)

\* C2: a slot is locked at sample i only if it is tracking at i and was
\* tracking four samples earlier; at the samples that have no sample four
\* steps earlier the was-tracking condition is taken as true, so the outcome
\* there depends on no other sample's tracking value.
C2_WasTracking ==
    Computed =>
        \A i \in Samples : \A s \in Slots :
            /\ kalm[i][s] => telem.AOACFCT[s][i] = "TRAK"
            /\ (kalm[i][s] /\ i > RollBy) => telem.AOACFCT[s][i - RollBy] = "TRAK"
            /\ i <= RollBy =>
                 (kalm[i][s] <=> (telem.AOACFCT[s][i] = "TRAK" /\ OtherConditions(i, s)))

\* nowflags is false and, of all the conditions of a lock, only the ms flag
\* of slot s fails at sample i
OnlyMsFails(i, s) ==
    /\ ~nowflags
    /\ telem.AOACFID[s][i] # "FID "
    /\ TrackingThroughout(s)
    /\ ~Failing(telem.AOACIIR[s][i]) /\ ~Failing(telem.AOACISP[s][i])
    /\ ~Failing(telem.AOACIDP[s][i])
    /\ Failing(telem.AOACIMS[s][i])
    /\ WithinLimit(i, s)

\* the AOACIMSS samples taken before slot sample i, and the latest of them
MssBefore(i) ==
    {j \in 1..Len(telem.AOACIMSS.times) : telem.AOACIMSS.times[j] < telem.times[i]}
MssNearestBefore(i) ==
    CHOOSE j \in MssBefore(i) : \A k \in MssBefore(i) : k <= j

\* C3: with nowflags false, in a dwell that starts after 2015:251 a failing
\* ms flag is ignored exactly when the AOACIMSS sample nearest before the
\* slot sample is not ENAB; in a dwell that starts at or before 2015:251 a
\* failing ms flag always disqualifies the slot.
C3_MasterSwitch ==
    Computed =>
        \A i \in Samples : \A s \in Slots :
            OnlyMsFails(i, s) =>
                IF dwell.start > date_2015_251
                THEN MssBefore(i) # {} =>
                        (kalm[i][s] <=> telem.AOACIMSS.vals[MssNearestBefore(i)] # "ENAB")
                ELSE ~kalm[i][s]

\* C4: a slot marked as a fiducial light at a sample is never locked at that
\* sample.
C4_FidNeverLocked ==
    Computed =>
        \A i \in Samples : \A s \in Slots :
            telem.AOACFID[s][i] = "FID " => ~kalm[i][s]

\* a fid light that meets every other condition of a lock
C4_Witness ==
    /\ Computed
    /\ \E i \in Samples : \E s \in Slots :
          /\ telem.AOACFID[s][i] = "FID "
          /\ GcatRows(s) # {}
          /\ TrackingThroughout(s)
          /\ ~Failing(telem.AOACIIR[s][i]) /\ ~Failing(telem.AOACISP[s][i])
          /\ ~Failing(telem.AOACIDP[s][i]) /\ ~Failing(telem.AOACIMS[s][i])
          /\ WithinLimit(i, s)
          /\ ~kalm[i][s]

HasGuideEntry(s) ==
    \E k \in 1..Len(cat) : cat[k].slot = s /\ cat[k].type \in {"BOT", "GUI"}

\* C5: a slot with no BOT or GUI entry in the catalog is never locked.
C5_OnlyGuideSlotsLock ==
    Computed =>
        \A i \in Samples : \A s \in Slots :
            ~HasGuideEntry(s) => ~kalm[i][s]

Flip(v) == IF v = "OK " THEN "ERR" ELSE "OK "
FlipMss(v) == IF v = "ENAB" THEN "DISA" ELSE "ENAB"

\* the telemetry with the dp flags of the slots in D, the ms flags of the
\* slots in M and, when fm, every AOACIMSS value changed; nothing else differs
Reflagged(D, M, fm) ==
    [telem EXCEPT
        !.AOACIDP = [s \in Slots |-> [i \in Samples |->
                        IF s \in D THEN Flip(telem.AOACIDP[s][i]) ELSE telem.AOACIDP[s][i]]],
        !.AOACIMS = [s \in Slots |-> [i \in Samples |->
                        IF s \in M THEN Flip(telem.AOACIMS[s][i]) ELSE telem.AOACIMS[s][i]]],
        !.AOACIMSS = [vals |-> [j \in 1..Len(telem.AOACIMSS.vals) |->
                                   IF fm THEN FlipMss(telem.AOACIMSS.vals[j])
                                   ELSE telem.AOACIMSS.vals[j]],
                      times |-> telem.AOACIMSS.times]]

\* C6: with nowflags true, a run on telemetry that differs only in dp flags,
\* ms flags and AOACIMSS values (each kind changed on every slot or left
\* alone, in every combination) computes the same matrix.
C6_NowflagsInsensitive ==
    (pc = "computed" /\ nowflags) =>
        \A D \in {{}, Slots} : \A M \in {{}, Slots} : \A fm \in BOOLEAN :
            LET alt == Reflagged(D, M, fm)
            IN \A i \in Samples : \A s \in Slots : KalAt(alt, i, s) = kalm[i][s]

\* a slot locked under nowflags although its dp and ms flags fail at a time
\* when neither override applies
C6_Witness ==
    /\ pc = "computed" /\ nowflags
    /\ \E i \in Samples : \E s \in Slots :
          /\ kalm[i][s]
          /\ Failing(telem.AOACIDP[s][i]) /\ Failing(telem.AOACIMS[s][i])
          /\ telem.times[i] < dp_date

\* C9: kal never hands a result to its caller; once the matrix is computed
\* the call ends in ValueError.
C9_AlwaysRaises ==
    /\ ret = << >>
    /\ pc = "done" => err = "ValueError"

\* a call that has ended after computing a matrix with a locked slot
C9_Witness ==
    /\ pc = "done" /\ err = "ValueError"
    /\ \E i \in Samples : \E s \in Slots : kalm[i][s]

(***************************************************************************)
(* Properties of the search scripts                                        *)
(***************************************************************************)
\* C7: a failure of telemetry retrieval or of catalog resolution for one
\* dwell never ends the run of from_derived.py: the dwell is skipped and the
\* later dwells are processed.
C7_NoDwellAbortsBatch == spc # "aborted"

\* the runs of the current dwell or chunk have been examined
AfterRuns == spc \in {"for", "done"} /\ kalstr # << >>

\* sample i is flagged
IsFlagged(i) == (kalstr[i] - diff[i]) < 3 /\ diff[i] # 0

\* a..b is a maximal run of consecutive flagged samples
MaximalRun(a, b) ==
    /\ a <= b
    /\ \A i \in a..b : IsFlagged(i)
    /\ (a = 1 \/ ~IsFlagged(a - 1))
    /\ (b = Len(kalstr) \/ ~IsFlagged(b + 1))

\* the dwell's obsid is in low_obsids, the chunk has a time in low_t
Reported ==
    IF script = "from_derived"
    THEN \E p \in 1..Len(low_obsids) : low_obsids[p] = obsid
    ELSE \E p \in 1..Len(low_t) : \E i \in 1..Len(res_telem.times) :
            low_t[p] = res_telem.times[i]

\* C8: a dwell or chunk is reported exactly when some maximal run of
\* consecutive flagged samples has more than 8 samples; in particular ten
\* consecutive samples with onboard count 1 and diff 3 report it.
C8_ReportedIffLongRun ==
    AfterRuns =>
        /\ Reported <=>
              \E a \in 1..Len(kalstr) : \E b \in 1..Len(kalstr) :
                  MaximalRun(a, b) /\ b - a + 1 > 8
        /\ (\E a \in 1..Len(kalstr) :
               /\ a + 9 <= Len(kalstr)
               /\ \A i \in a..(a + 9) : kalstr[i] = 1 /\ diff[i] = 3) => Reported

\* a dwell of from_derived.py with count 1 and diff 3 at ten samples in a
\* row, reported
C8_Witness ==
    /\ AfterRuns /\ script = "from_derived"
    /\ Len(kalstr) >= 10
    /\ \A i \in 1..10 : kalstr[i] = 1 /\ diff[i] = 3
    /\ Reported

\* 5 <= |x| < 20
Marginal(x) == 5 <= Abs(x) /\ Abs(x) < 20

\* the slots with a marginal y or z offset at sample i: the columns of gcat
\* in from_derived.py, the eight slots in from_res.py
MarginalSlots(i) ==
    IF script = "from_derived"
    THEN LET g == DGcat(dcat)
         IN {idx \in 1..Len(g) :
                \/ Marginal(DYagOffs(g, pcad_data, i, idx))
                \/ Marginal(DZagOffs(g, pcad_data, i, idx))}
    ELSE {s \in Slots :
                \/ Marginal(res_telem.AORESY[s][i])
                \/ Marginal(res_telem.AORESZ[s][i])}

\* C10: in both scripts diff at a sample is the number of slots whose y or z
\* offset x has 5 <= |x| < 20.
C10_DiffCountsMarginal ==
    spc = "runs" =>
        \A i \in 1..Len(diff) : diff[i] = Cardinality(MarginalSlots(i))

\* get_catalog has been called for the current dwell and obstime is not
\* strictly between datestart and datestop of the load segment it selected
OutOfSegment ==
    /\ script = "from_derived"
    /\ lookup # NoLookup
    /\ ~((lookup.datestart < lookup.obstime) /\ (lookup.datestop > lookup.obstime))

\* C11: when obstime is not strictly between datestart and datestop of the
\* selected load segment, get_catalog returns no catalog resolved from that
\* segment and the dwell adds nothing to low_obsids.
C11_OutOfSegmentSkipped ==
    OutOfSegment =>
        /\ dcat = << >>
        /\ \A p \in 1..Len(low_obsids) : low_obsids[p] # obsid

====
